---- MODULE Spec2Model ----
(***************************************************************************)
(* Model of the repository indexing engine of claude-codex:               *)
(*   - CodebaseIndexService   (src/src/lib/codebase-index.ts), the file   *)
(*     index: tables repositories/files in codebase-index.db;             *)
(*   - AdvancedCodebaseIndex  (src/src/lib/advanced-codebase-index.ts),   *)
(*     the chunk index: tables repositories/chunks/symbols/chunks_fts in  *)
(*     advanced-codebase-index.db.                                        *)
(* Both are process-wide singletons called from request handlers, so      *)
(* several calls are in flight at once and interleave at every await.     *)
(* One action of the model is one continuation of an async method: the    *)
(* completion of the awaited call together with the synchronous code that *)
(* follows it up to the next await.  The per-file loop is the exception:  *)
(* each readFileSync is a step of its own, because its outcome (readable  *)
(* or not) is an input of the environment.                                *)
(* The services are taken as initialised (initialize() has completed).    *)
(***************************************************************************)
EXTENDS Integers, Sequences, FiniteSets, TLC

\* ------------------------------------------------------------------ bounds
MaxOps == 3       \* operations started in one behaviour
MaxFaults == 1    \* failures the environment injects (clone, storage, read)
MaxPushes == 1    \* times the Source Provider's head moves

\* ----------------------------------------------------------- the universe
Procs == {"p1", "p2"}
Repos == {"rA", "rB"}
Commits == {"c1", "c2"}
Paths == {"a", "b", "c"}

Null == "null"      \* SQL NULL / JS undefined
NoDir == "nodir"    \* the per-repository clone directory does not exist
NoClone == <<>>     \* the shared clone directory does not exist
Absent == <<>>      \* no row under that key

\* The tree of repository r at commit c, in the order `find` lists it.
Tree(r, c) == IF c = "c1" THEN <<"a", "b">> ELSE <<"b", "c">>

\* The text of file path of repository r at commit c: every (r, c) has its own.
Content(r, c) == <<r, c>>
Contents == {Content(r, c) : r \in Repos, c \in Commits}

\* content.length > 50000: the file index skips the file.
IsLarge(r, c, path) == c = "c2" /\ path = "c"

Range(s) == {s[i] : i \in DOMAIN s}

\* ------------------------------------------------------------------ state
VARIABLES
  roles,     \* per caller: the operations it issues (fixed in a behaviour)
  targets,   \* the repositories they name (fixed in a behaviour)
  provider,  \* Source Provider: the head commit of the ref, per repository
  fRepos,    \* file index, table repositories: name -> row
  fFiles,    \* file index, table files: repository -> path -> content
  fTemp,     \* file index, <tmpdir>/codebase-index/<repo>: the commit cloned there
  aRepos,    \* chunk index, table repositories
  aChunks,   \* chunk index, table chunks: id -> row (id is the PRIMARY KEY)
  aSymbols,  \* chunk index, table symbols: (chunkId, context) -> number of rows
  aFts,      \* chunk index, table chunks_fts: (id, content) -> number of rows
  aTemp,     \* chunk index, /tmp/codebase-clone: the (repository, commit) cloned there
  proc,      \* per caller: the operation in flight and its local variables
  started,   \* operations started so far
  faults,    \* failures injected so far
  pushes,    \* provider moves so far
  calc       \* a function or method studied on its own: its arguments, the
             \* fields it works on, and its result

vars == <<roles, targets, provider, fRepos, fFiles, fTemp, aRepos, aChunks,
          aSymbols, aFts, aTemp, proc, started, faults, pushes, calc>>

fileDb == <<fRepos, fFiles>>
chunkDb == <<aRepos, aChunks, aSymbols, aFts>>
env == <<roles, targets, provider, pushes, calc>>

\* No pure function is under evaluation.
NoCalc == [fn |-> "none"]

NoRow == [exists |-> FALSE, lastCommitHash |-> Null, total |-> 0]

\* A chunk id is `${filePath}:${startLine}-${endLine}:${type}`; the model's
\* files are one generic block each, so the id is a function of the path alone.
ChunkId(path) == <<path, "1-1", "block">>
ChunkIds == {ChunkId(path) : path \in Paths}

Idle == [pc |-> "idle", kind |-> "none", repo |-> "rA", hash |-> Null,
         todo |-> <<>>, rd |-> Absent, n |-> 0, err |-> "none",
         res |-> {}, ans |-> "none", warned |-> {}, cleared |-> FALSE,
         committed |-> FALSE, row |-> NoRow]

Kinds == {"fIndex", "aIndex", "fSearch", "aSearch", "stats", "needsUpdate"}

FirstPc(k) ==
  CASE k = "fIndex" -> "fGetRepo"
    [] k = "aIndex" -> "aClone"
    [] k = "fSearch" -> "fqGetRepo"
    [] k = "aSearch" -> "aqGetRepo"
    [] k = "stats" -> "sGetRepo"
    [] k = "needsUpdate" -> "nuSelect"

InitDb ==
  /\ provider = [r \in Repos |-> "c1"]
  /\ fRepos = [r \in Repos |-> NoRow]
  /\ fFiles = [r \in Repos |-> [path \in Paths |-> Absent]]
  /\ fTemp = [r \in Repos |-> NoDir]
  /\ aRepos = [r \in Repos |-> NoRow]
  /\ aChunks = [id \in ChunkIds |-> Absent]
  /\ aSymbols = [k \in ChunkIds \X Contents |-> 0]
  /\ aFts = [k \in ChunkIds \X Contents |-> 0]
  /\ aTemp = NoClone
  /\ proc = [p \in Procs |-> Idle]
  /\ started = 0
  /\ faults = 0
  /\ pushes = 0

Init ==
  /\ roles = [p \in Procs |-> Kinds]
  /\ targets = {"rA"}
  /\ InitDb
  /\ calc = NoCalc

\* -------------------------------------------------------------- the callers
\* A request handler calls a method of one of the two singletons.
Start(p) ==
  /\ proc[p].pc = "idle"
  /\ started < MaxOps
  /\ \E k \in roles[p], r \in targets :
       proc' = [proc EXCEPT ![p] = [Idle EXCEPT !.pc = FirstPc(k), !.kind = k, !.repo = r]]
  /\ started' = started + 1
  /\ UNCHANGED <<env, fileDb, fTemp, chunkDb, aTemp, faults>>

\* The promise settles; the caller's locals are gone.
Return(p) ==
  /\ proc[p].pc \in {"done", "failed"}
  /\ proc' = [proc EXCEPT ![p] = Idle]
  /\ UNCHANGED <<env, fileDb, fTemp, chunkDb, aTemp, started, faults>>

\* The ref's head moves at the Source Provider.
ProviderPush ==
  /\ pushes < MaxPushes
  /\ \E r \in targets, c \in Commits :
       /\ c # provider[r]
       /\ provider' = [provider EXCEPT ![r] = c]
  /\ pushes' = pushes + 1
  /\ UNCHANGED <<roles, targets, fileDb, fTemp, chunkDb, aTemp, proc, started, faults, calc>>

\* ------------------------------------------- CodebaseIndexService.indexRepository
Set(p, f) == [proc EXCEPT ![p] = f]

\* catch (error) { if (existsSync(tempDir)) rm -rf tempDir; throw error }
FCatch(p, e) ==
  /\ proc' = Set(p, [proc[p] EXCEPT !.pc = "failed", !.err = e])
  /\ fTemp' = [fTemp EXCEPT ![proc[p].repo] = NoDir]

\* The code between getOrCreateRepository's return and the await of git.clone:
\* rm -rf of a left-over tempDir, then the clone is started.
FStartClone(p) ==
  /\ proc' = Set(p, [proc[p] EXCEPT !.pc = "fCloning"])
  /\ fTemp' = [fTemp EXCEPT ![proc[p].repo] = NoDir]

\* getOrCreateRepository: SELECT id FROM repositories WHERE name = ?
FGetRepo(p) ==
  /\ proc[p].pc = "fGetRepo"
  /\ IF fRepos[proc[p].repo].exists
       THEN FStartClone(p)
       ELSE /\ proc' = Set(p, [proc[p] EXCEPT !.pc = "fInsRepo"])
            /\ UNCHANGED fTemp
  /\ UNCHANGED <<env, fileDb, chunkDb, aTemp, started, faults>>

\* getOrCreateRepository: INSERT INTO repositories (name, lastIndexed).  name is
\* UNIQUE: the INSERT of a name another call has inserted meanwhile throws, and
\* the call sits before the try block, so nothing is cleaned up.
FInsRepo(p) ==
  /\ proc[p].pc = "fInsRepo"
  /\ \/ /\ ~fRepos[proc[p].repo].exists
        /\ fRepos' = [fRepos EXCEPT ![proc[p].repo] = [NoRow EXCEPT !.exists = TRUE]]
        /\ FStartClone(p)
        /\ UNCHANGED faults
     \/ /\ fRepos[proc[p].repo].exists \/ faults < MaxFaults
        /\ faults' = IF fRepos[proc[p].repo].exists THEN faults ELSE faults + 1
        /\ proc' = Set(p, [proc[p] EXCEPT !.pc = "failed", !.err = "StorageFailure"])
        /\ UNCHANGED <<fRepos, fTemp>>
  /\ UNCHANGED <<env, fFiles, chunkDb, aTemp, started>>

\* FClone with a catch block that also drops the repository's stored files.
FClone_ClearsOnFailure(p) ==
  /\ proc[p].pc = "fCloning"
  /\ \/ /\ fTemp' = [fTemp EXCEPT ![proc[p].repo] = provider[proc[p].repo]]
        /\ proc' = Set(p, [proc[p] EXCEPT !.pc = "fLog"])
        /\ UNCHANGED <<faults, fFiles>>
     \/ /\ faults < MaxFaults
        /\ faults' = faults + 1
        /\ FCatch(p, "SourceUnavailable")
        /\ fFiles' = [fFiles EXCEPT ![proc[p].repo] = [path \in Paths |-> Absent]]
  /\ UNCHANGED <<env, fRepos, chunkDb, aTemp, started>>

\* await git.clone(...) settles; on success simpleGit(tempDir).log is started.
FClone(p) ==
  /\ proc[p].pc = "fCloning"
  /\ \/ /\ fTemp' = [fTemp EXCEPT ![proc[p].repo] = provider[proc[p].repo]]
        /\ proc' = Set(p, [proc[p] EXCEPT !.pc = "fLog"])
        /\ UNCHANGED faults
     \/ /\ faults < MaxFaults
        /\ faults' = faults + 1
        /\ FCatch(p, "SourceUnavailable")
  /\ UNCHANGED <<env, fileDb, chunkDb, aTemp, started>>

\* FLog that also records the commit hash on the repository row, ahead of the
\* clear and the writes.
FLog_CommitsEarly(p) ==
  /\ proc[p].pc = "fLog"
  /\ IF fTemp[proc[p].repo] = NoDir
       THEN FCatch(p, "SourceUnavailable") /\ UNCHANGED fRepos
       ELSE /\ proc' = Set(p, [proc[p] EXCEPT !.pc = "fClear", !.hash = fTemp[proc[p].repo]])
            /\ fRepos' = [fRepos EXCEPT ![proc[p].repo] =
                            [@ EXCEPT !.lastCommitHash = fTemp[proc[p].repo]]]
            /\ UNCHANGED fTemp
  /\ UNCHANGED <<env, fFiles, chunkDb, aTemp, started, faults>>

\* await repoGit.log(['-1']) settles: currentHash = log.latest?.hash of whatever
\* is in tempDir now; git fails when the directory has been removed meanwhile.
\* Then DELETE FROM files is started.
FLog(p) ==
  /\ proc[p].pc = "fLog"
  /\ IF fTemp[proc[p].repo] = NoDir
       THEN FCatch(p, "SourceUnavailable")
       ELSE /\ proc' = Set(p, [proc[p] EXCEPT !.pc = "fClear", !.hash = fTemp[proc[p].repo]])
            /\ UNCHANGED fTemp
  /\ UNCHANGED <<env, fileDb, chunkDb, aTemp, started, faults>>

\* findRelevantFiles(tempDir): the output of find, [] when find fails.
FindRelevantFiles(r, dir) == IF dir = NoDir THEN <<>> ELSE Tree(r, dir)

\* Where the per-file loop goes with `rest` still to do: the next file, or the
\* UPDATE of the repository row after the last one.
FLoop(rest) == IF rest = <<>> THEN "fUpdate" ELSE "fFile"

\* DELETE FROM files WHERE repositoryId = ? settles, then findRelevantFiles.
FClear(p) ==
  /\ proc[p].pc = "fClear"
  /\ \/ /\ fFiles' = [fFiles EXCEPT ![proc[p].repo] = [path \in Paths |-> Absent]]
        /\ LET files == FindRelevantFiles(proc[p].repo, fTemp[proc[p].repo])
           IN proc' = Set(p, [proc[p] EXCEPT !.pc = FLoop(files), !.todo = files,
                                             !.cleared = TRUE])
        /\ UNCHANGED <<fTemp, faults>>
     \/ /\ faults < MaxFaults
        /\ faults' = faults + 1
        /\ FCatch(p, "StorageFailure")
        /\ UNCHANGED fFiles
  /\ UNCHANGED <<env, fRepos, chunkDb, aTemp, started>>

\* indexFile up to its first await: readFileSync, then the size check.  A throw
\* is caught by the loop's try/catch (console.warn) and the loop goes on; a
\* large file makes indexFile return normally, so `indexed++` runs.
FFile(p) ==
  /\ proc[p].pc = "fFile"
  /\ LET r == proc[p].repo
         path == Head(proc[p].todo)
         rest == Tail(proc[p].todo)
         dir == fTemp[r]
         readable == dir # NoDir /\ path \in Range(Tree(r, dir))
     IN \/ /\ readable
           /\ IF IsLarge(r, dir, path)
                THEN proc' = Set(p, [proc[p] EXCEPT !.pc = FLoop(rest), !.todo = rest,
                                                  !.n = @ + 1])
                ELSE proc' = Set(p, [proc[p] EXCEPT !.pc = "fWrite", !.rd = Content(r, dir)])
           /\ UNCHANGED faults
        \/ /\ ~readable \/ faults < MaxFaults
           /\ faults' = IF readable THEN faults + 1 ELSE faults
           /\ proc' = Set(p, [proc[p] EXCEPT !.pc = FLoop(rest), !.todo = rest,
                                             !.warned = @ \cup {"FileUnreadable"}])
  /\ UNCHANGED <<env, fileDb, fTemp, chunkDb, aTemp, started>>

\* indexFile: INSERT OR REPLACE INTO files settles.  A failure is thrown into the
\* loop's try/catch like any other error of indexFile.
FWrite(p) ==
  /\ proc[p].pc = "fWrite"
  /\ LET r == proc[p].repo
         path == Head(proc[p].todo)
         rest == Tail(proc[p].todo)
     IN \/ /\ fFiles' = [fFiles EXCEPT ![r][path] = proc[p].rd]
           /\ proc' = Set(p, [proc[p] EXCEPT !.pc = FLoop(rest), !.todo = rest,
                                             !.rd = Absent, !.n = @ + 1])
           /\ UNCHANGED faults
        \/ /\ faults < MaxFaults
           /\ faults' = faults + 1
           /\ proc' = Set(p, [proc[p] EXCEPT !.pc = FLoop(rest), !.todo = rest,
                                             !.rd = Absent,
                                             !.warned = @ \cup {"WriteFailure"}])
           /\ UNCHANGED fFiles
  /\ UNCHANGED <<env, fRepos, fTemp, chunkDb, aTemp, started>>

\* FUpdate with a throw after the UPDATE has settled.
FUpdate_ThrowsAfterUpdate(p) ==
  /\ proc[p].pc = "fUpdate"
  /\ fRepos' = [fRepos EXCEPT ![proc[p].repo] =
                  [@ EXCEPT !.lastCommitHash = proc[p].hash, !.total = proc[p].n]]
  /\ FCatch(p, "StorageFailure")
  /\ UNCHANGED <<env, fFiles, chunkDb, aTemp, started, faults>>

\* UPDATE repositories SET lastCommitHash, lastIndexed, totalFiles WHERE id = ?
\* settles, then the clone is removed and the method returns.
FUpdate(p) ==
  /\ proc[p].pc = "fUpdate"
  /\ \/ /\ fRepos' = [fRepos EXCEPT ![proc[p].repo] =
                         [@ EXCEPT !.lastCommitHash = proc[p].hash, !.total = proc[p].n]]
        /\ proc' = Set(p, [proc[p] EXCEPT !.pc = "done", !.committed = TRUE])
        /\ fTemp' = [fTemp EXCEPT ![proc[p].repo] = NoDir]
        /\ UNCHANGED faults
     \/ /\ faults < MaxFaults
        /\ faults' = faults + 1
        /\ FCatch(p, "StorageFailure")
        /\ UNCHANGED fRepos
  /\ UNCHANGED <<env, fFiles, chunkDb, aTemp, started>>

\* ------------------------------------------ AdvancedCodebaseIndex.indexRepository
\* catch (error) { if (existsSync(this.tempDir)) rm -rf; throw error }
ACatch(p, e) ==
  /\ proc' = Set(p, [proc[p] EXCEPT !.pc = "failed", !.err = e])
  /\ aTemp' = NoClone

\* The synchronous head of the try block: rm -rf of this.tempDir, execSync of
\* git clone and of git rev-parse HEAD; then getOrCreateRepository's SELECT.
AClone(p) ==
  /\ proc[p].pc = "aClone"
  /\ \/ /\ aTemp' = <<proc[p].repo, provider[proc[p].repo]>>
        /\ proc' = Set(p, [proc[p] EXCEPT !.pc = "aGetRepo",
                                          !.hash = provider[proc[p].repo]])
        /\ UNCHANGED faults
     \/ /\ faults < MaxFaults
        /\ faults' = faults + 1
        /\ ACatch(p, "SourceUnavailable")
  /\ UNCHANGED <<env, fileDb, fTemp, chunkDb, started>>

\* getOrCreateRepository: SELECT id FROM repositories WHERE name = ?
AGetRepo(p) ==
  /\ proc[p].pc = "aGetRepo"
  /\ proc' = Set(p, [proc[p] EXCEPT !.pc = IF aRepos[proc[p].repo].exists
                                            THEN "aClearChunks" ELSE "aInsRepo"])
  /\ UNCHANGED <<env, fileDb, fTemp, chunkDb, aTemp, started, faults>>

\* getOrCreateRepository: INSERT INTO repositories (name), inside the try block.
AInsRepo(p) ==
  /\ proc[p].pc = "aInsRepo"
  /\ \/ /\ ~aRepos[proc[p].repo].exists
        /\ aRepos' = [aRepos EXCEPT ![proc[p].repo] = [NoRow EXCEPT !.exists = TRUE]]
        /\ proc' = Set(p, [proc[p] EXCEPT !.pc = "aClearChunks"])
        /\ UNCHANGED <<aTemp, faults>>
     \/ /\ aRepos[proc[p].repo].exists \/ faults < MaxFaults
        /\ faults' = IF aRepos[proc[p].repo].exists THEN faults ELSE faults + 1
        /\ ACatch(p, "StorageFailure")
        /\ UNCHANGED aRepos
  /\ UNCHANGED <<env, fileDb, fTemp, aChunks, aSymbols, aFts, started>>

\* SELECT id FROM chunks WHERE repositoryId = ?
ChunksOf(r) == {id \in ChunkIds : aChunks[id] # Absent /\ aChunks[id][1] = r}

\* AClearChunks without the DELETE: the rows of the earlier pass stay.
AClearChunks_Skips(p) ==
  /\ proc[p].pc = "aClearChunks"
  /\ proc' = Set(p, [proc[p] EXCEPT !.pc = "aClearSymbols", !.cleared = TRUE])
  /\ UNCHANGED <<env, fileDb, fTemp, chunkDb, aTemp, started, faults>>

\* DELETE FROM chunks WHERE repositoryId = ?
AClearChunks(p) ==
  /\ proc[p].pc = "aClearChunks"
  /\ \/ /\ aChunks' = [id \in ChunkIds |->
                         IF id \in ChunksOf(proc[p].repo) THEN Absent ELSE aChunks[id]]
        /\ proc' = Set(p, [proc[p] EXCEPT !.pc = "aClearSymbols", !.cleared = TRUE])
        /\ UNCHANGED <<aTemp, faults>>
     \/ /\ faults < MaxFaults
        /\ faults' = faults + 1
        /\ ACatch(p, "StorageFailure")
        /\ UNCHANGED aChunks
  /\ UNCHANGED <<env, fileDb, fTemp, aRepos, aSymbols, aFts, started>>

\* DELETE FROM symbols WHERE chunkId IN (SELECT id FROM chunks WHERE
\* repositoryId = ?): the sub-select runs on the chunks table as it is now.
AClearSymbols(p) ==
  /\ proc[p].pc = "aClearSymbols"
  /\ \/ /\ aSymbols' = [k \in ChunkIds \X Contents |->
                          IF k[1] \in ChunksOf(proc[p].repo) THEN 0 ELSE aSymbols[k]]
        /\ proc' = Set(p, [proc[p] EXCEPT !.pc = "aClearFts"])
        /\ UNCHANGED <<aTemp, faults>>
     \/ /\ faults < MaxFaults
        /\ faults' = faults + 1
        /\ ACatch(p, "StorageFailure")
        /\ UNCHANGED aSymbols
  /\ UNCHANGED <<env, fileDb, fTemp, aRepos, aChunks, aFts, started>>

\* id LIKE `${repoName}:%`: the id starts with the repository name and a colon.
\* An id starts with its file path and a colon.
IdLikeRepo(id, r) == id[1] = r

\* DELETE FROM chunks_fts WHERE rowid IN (SELECT rowid FROM chunks_fts WHERE
\* id LIKE ?), then findRelevantFiles(this.tempDir).
AClearFts(p) ==
  /\ proc[p].pc = "aClearFts"
  /\ \/ /\ aFts' = [k \in ChunkIds \X Contents |->
                      IF IdLikeRepo(k[1], proc[p].repo) THEN 0 ELSE aFts[k]]
        /\ LET files == IF aTemp = NoClone THEN <<>> ELSE Tree(aTemp[1], aTemp[2])
           IN proc' = Set(p, [proc[p] EXCEPT !.todo = files,
                                             !.pc = IF files = <<>> THEN "aUpdate" ELSE "aFile"])
        /\ UNCHANGED <<aTemp, faults>>
     \/ /\ faults < MaxFaults
        /\ faults' = faults + 1
        /\ ACatch(p, "StorageFailure")
        /\ UNCHANGED aFts
  /\ UNCHANGED <<env, fileDb, fTemp, aRepos, aChunks, aSymbols, started>>

\* readFileSync(filePath) and parseFileIntoChunks: no try/catch around them, so
\* a throw leaves the loop and reaches the method's catch block.
AFile(p) ==
  /\ proc[p].pc = "aFile"
  /\ LET path == Head(proc[p].todo)
         readable == aTemp # NoClone /\ path \in Range(Tree(aTemp[1], aTemp[2]))
     IN \/ /\ readable
           /\ proc' = Set(p, [proc[p] EXCEPT !.pc = "aWrite",
                                             !.rd = Content(aTemp[1], aTemp[2])])
           /\ UNCHANGED <<aTemp, faults>>
        \/ /\ ~readable \/ faults < MaxFaults
           /\ faults' = IF readable THEN faults + 1 ELSE faults
           /\ ACatch(p, "FileUnreadable")
  /\ UNCHANGED <<env, fileDb, fTemp, chunkDb, started>>

\* The writes of one chunk: INSERT INTO chunks (id is the PRIMARY KEY, so an id
\* that is stored already is refused), INSERT INTO symbols for its symbol,
\* INSERT INTO chunks_fts; totalChunks++.  Any throw reaches the catch block.
AWrite(p) ==
  /\ proc[p].pc = "aWrite"
  /\ LET r == proc[p].repo
         id == ChunkId(Head(proc[p].todo))
         rest == Tail(proc[p].todo)
     IN \/ /\ aChunks[id] = Absent
           /\ aChunks' = [aChunks EXCEPT ![id] = <<r, proc[p].rd>>]
           /\ aSymbols' = [aSymbols EXCEPT ![<<id, proc[p].rd>>] = @ + 1]
           /\ aFts' = [aFts EXCEPT ![<<id, proc[p].rd>>] = @ + 1]
           /\ proc' = Set(p, [proc[p] EXCEPT !.todo = rest, !.rd = Absent, !.n = @ + 1,
                                             !.pc = IF rest = <<>> THEN "aUpdate" ELSE "aFile"])
           /\ UNCHANGED <<aTemp, faults>>
        \/ /\ aChunks[id] # Absent \/ faults < MaxFaults
           /\ faults' = IF aChunks[id] # Absent THEN faults ELSE faults + 1
           /\ ACatch(p, "WriteFailure")
           /\ UNCHANGED <<aChunks, aSymbols, aFts>>
  /\ UNCHANGED <<env, fileDb, fTemp, aRepos, started>>

\* UPDATE repositories SET lastCommitHash, lastIndexed, totalChunks WHERE id = ?
\* settles, then the clone is removed and the method returns.
AUpdate(p) ==
  /\ proc[p].pc = "aUpdate"
  /\ \/ /\ aRepos' = [aRepos EXCEPT ![proc[p].repo] =
                         [@ EXCEPT !.lastCommitHash = proc[p].hash, !.total = proc[p].n]]
        /\ proc' = Set(p, [proc[p] EXCEPT !.pc = "done", !.committed = TRUE])
        /\ aTemp' = NoClone
        /\ UNCHANGED faults
     \/ /\ faults < MaxFaults
        /\ faults' = faults + 1
        /\ ACatch(p, "StorageFailure")
        /\ UNCHANGED aRepos
  /\ UNCHANGED <<env, fileDb, fTemp, aChunks, aSymbols, aFts, started>>

\* ------------------------------------------------------------------ queries
\* searchRelevantFiles / getAllFiles: getOrCreateRepository's SELECT.
FQGetRepo(p) ==
  /\ proc[p].pc = "fqGetRepo"
  /\ proc' = Set(p, [proc[p] EXCEPT !.pc = IF fRepos[proc[p].repo].exists
                                            THEN "fqSelect" ELSE "fqInsRepo"])
  /\ UNCHANGED <<env, fileDb, fTemp, chunkDb, aTemp, started, faults>>

\* searchRelevantFiles / getAllFiles: getOrCreateRepository's INSERT.
FQInsRepo(p) ==
  /\ proc[p].pc = "fqInsRepo"
  /\ \/ /\ ~fRepos[proc[p].repo].exists
        /\ fRepos' = [fRepos EXCEPT ![proc[p].repo] = [NoRow EXCEPT !.exists = TRUE]]
        /\ proc' = Set(p, [proc[p] EXCEPT !.pc = "fqSelect"])
        /\ UNCHANGED faults
     \/ /\ fRepos[proc[p].repo].exists \/ faults < MaxFaults
        /\ faults' = IF fRepos[proc[p].repo].exists THEN faults ELSE faults + 1
        /\ proc' = Set(p, [proc[p] EXCEPT !.pc = "failed", !.err = "StorageFailure"])
        /\ UNCHANGED fRepos
  /\ UNCHANGED <<env, fFiles, fTemp, chunkDb, aTemp, started>>

\* SELECT * FROM files WHERE repositoryId = ?: the rows the scoring loop sees.
FilesOf(r) == {<<path, fFiles[r][path]>> : path \in {q \in Paths : fFiles[r][q] # Absent}}

FQSelect(p) ==
  /\ proc[p].pc = "fqSelect"
  /\ proc' = Set(p, [proc[p] EXCEPT !.pc = "done", !.res = FilesOf(proc[p].repo)])
  /\ UNCHANGED <<env, fileDb, fTemp, chunkDb, aTemp, started, faults>>

\* searchRelevantChunks: getOrCreateRepository's SELECT.
AQGetRepo(p) ==
  /\ proc[p].pc = "aqGetRepo"
  /\ proc' = Set(p, [proc[p] EXCEPT !.pc = IF aRepos[proc[p].repo].exists
                                            THEN "aqSelect" ELSE "aqInsRepo"])
  /\ UNCHANGED <<env, fileDb, fTemp, chunkDb, aTemp, started, faults>>

\* searchRelevantChunks: getOrCreateRepository's INSERT.
AQInsRepo(p) ==
  /\ proc[p].pc = "aqInsRepo"
  /\ \/ /\ ~aRepos[proc[p].repo].exists
        /\ aRepos' = [aRepos EXCEPT ![proc[p].repo] = [NoRow EXCEPT !.exists = TRUE]]
        /\ proc' = Set(p, [proc[p] EXCEPT !.pc = "aqSelect"])
        /\ UNCHANGED faults
     \/ /\ aRepos[proc[p].repo].exists \/ faults < MaxFaults
        /\ faults' = IF aRepos[proc[p].repo].exists THEN faults ELSE faults + 1
        /\ proc' = Set(p, [proc[p] EXCEPT !.pc = "failed", !.err = "StorageFailure"])
        /\ UNCHANGED aRepos
  /\ UNCHANGED <<env, fileDb, fTemp, aChunks, aSymbols, aFts, aTemp, started>>

\* The candidate chunks of the three searches: rows of chunks WHERE repositoryId = ?
AQSelect(p) ==
  /\ proc[p].pc = "aqSelect"
  /\ proc' = Set(p, [proc[p] EXCEPT !.pc = "done",
                        !.res = {<<id[1], aChunks[id][2]>> : id \in ChunksOf(proc[p].repo)}])
  /\ UNCHANGED <<env, fileDb, fTemp, chunkDb, aTemp, started, faults>>

\* getRepositoryStats: SELECT * FROM repositories WHERE name = ?; null without a row.
SGetRepo(p) ==
  /\ proc[p].pc = "sGetRepo"
  /\ proc' = Set(p, [proc[p] EXCEPT !.row = fRepos[proc[p].repo],
                        !.pc = IF fRepos[proc[p].repo].exists THEN "sFiles" ELSE "done"])
  /\ UNCHANGED <<env, fileDb, fTemp, chunkDb, aTemp, started, faults>>

\* getRepositoryStats: SELECT fileType, COUNT(*) FROM files WHERE repositoryId = ?
SFiles(p) ==
  /\ proc[p].pc = "sFiles"
  /\ proc' = Set(p, [proc[p] EXCEPT !.pc = "done", !.n = Cardinality(FilesOf(proc[p].repo))])
  /\ UNCHANGED <<env, fileDb, fTemp, chunkDb, aTemp, started, faults>>

\* -------------------------------------------- CodebaseIndexService.needsUpdate
\* if (!repo || !repo.lastCommitHash) return true
NeverIndexed(row) == ~row.exists \/ row.lastCommitHash = Null

\* The comparison with === in place of !==.
HashDiffers_Inverted(stored, current) == stored = current

\* return repo.lastCommitHash !== currentHash
HashDiffers(stored, current) == stored # current

Bool(b) == IF b THEN "true" ELSE "false"

\* SELECT lastCommitHash FROM repositories WHERE name = ?
NuSelect(p) ==
  /\ proc[p].pc = "nuSelect"
  /\ LET row == fRepos[proc[p].repo]
     IN proc' = Set(p, [proc[p] EXCEPT !.row = row,
                          !.pc = IF NeverIndexed(row) THEN "done" ELSE "nuFetch",
                          !.ans = IF NeverIndexed(row) THEN "true" ELSE "none"])
  /\ UNCHANGED <<env, fileDb, fTemp, chunkDb, aTemp, started, faults>>

\* NuFetch with a catch block that answers false (index taken as fresh).
NuFetch_ErrorMeansFresh(p) ==
  /\ proc[p].pc = "nuFetch"
  /\ \/ /\ proc' = Set(p, [proc[p] EXCEPT !.pc = "done", !.hash = provider[proc[p].repo],
                !.ans = Bool(HashDiffers(proc[p].row.lastCommitHash, provider[proc[p].repo]))])
        /\ UNCHANGED faults
     \/ /\ faults < MaxFaults
        /\ faults' = faults + 1
        /\ proc' = Set(p, [proc[p] EXCEPT !.pc = "done", !.err = "ProviderError",
                                          !.ans = "false"])
  /\ UNCHANGED <<env, fileDb, fTemp, chunkDb, aTemp, started>>

\* fetch(api.github.com/repos/<repo>/commits/<branch>) settles: a throw or a
\* non-OK response gives true, else the comparison with commit.sha.
NuFetch(p) ==
  /\ proc[p].pc = "nuFetch"
  /\ \/ /\ proc' = Set(p, [proc[p] EXCEPT !.pc = "done", !.hash = provider[proc[p].repo],
                !.ans = Bool(HashDiffers(proc[p].row.lastCommitHash, provider[proc[p].repo]))])
        /\ UNCHANGED faults
     \/ /\ faults < MaxFaults
        /\ faults' = faults + 1
        /\ proc' = Set(p, [proc[p] EXCEPT !.pc = "done", !.err = "ProviderError",
                                          !.ans = "true"])
  /\ UNCHANGED <<env, fileDb, fTemp, chunkDb, aTemp, started>>

\* ------------------------------------------------------------ specification
Next ==
  \/ \E p \in Procs :
       \/ Start(p) \/ Return(p)
       \/ FGetRepo(p) \/ FInsRepo(p) \/ FClone(p) \/ FLog(p)
       \/ FClear(p) \/ FFile(p) \/ FWrite(p) \/ FUpdate(p)
       \/ AClone(p) \/ AGetRepo(p) \/ AInsRepo(p) \/ AClearChunks(p)
       \/ AClearSymbols(p) \/ AClearFts(p) \/ AFile(p) \/ AWrite(p) \/ AUpdate(p)
       \/ FQGetRepo(p) \/ FQInsRepo(p) \/ FQSelect(p)
       \/ AQGetRepo(p) \/ AQInsRepo(p) \/ AQSelect(p)
       \/ SGetRepo(p) \/ SFiles(p)
       \/ NuSelect(p) \/ NuFetch(p)
  \/ ProviderPush

Spec == Init /\ [][Next]_vars

\* One caller at a time: every operation runs to its end before the next starts.
InitSeq ==
  /\ roles = [p \in Procs |-> IF p = "p1" THEN Kinds ELSE {}]
  /\ targets = {"rA"}
  /\ InitDb
  /\ calc = NoCalc

SpecSeq == InitSeq /\ [][Next]_vars

\* One caller indexes, pass after pass; the other one only reads.
InitRace ==
  /\ roles = [p \in Procs |-> IF p = "p1" THEN {"fIndex", "aIndex"}
                                          ELSE Kinds \ {"fIndex", "aIndex"}]
  /\ targets = {"rA"}
  /\ InitDb
  /\ calc = NoCalc

SpecRace == InitRace /\ [][Next]_vars

\* ---------------------------------------------------------------- vocabulary
IndexKinds == {"fIndex", "aIndex"}
QueryKinds == {"fSearch", "aSearch", "stats"}

\* The clear-then-write phase of a pass: from the DELETE being issued to the
\* UPDATE of the repository row settling.
WritePhase == {"fClear", "fFile", "fWrite", "fUpdate",
               "aClearChunks", "aClearSymbols", "aClearFts", "aFile", "aWrite", "aUpdate"}

\* The repository row of the index that p's pass works on.
RowOf(p) == IF proc[p].kind = "aIndex" THEN aRepos[proc[p].repo] ELSE fRepos[proc[p].repo]

\* The complete file snapshot of repository r at commit c.
FileSnap(r, c) ==
  {<<path, Content(r, c)>> : path \in {q \in Range(Tree(r, c)) : ~IsLarge(r, c, q)}}

\* The complete chunk snapshot of repository r at commit c.
ChunkSnap(r, c) == {<<ChunkId(path), Content(r, c)>> : path \in Range(Tree(r, c))}

StoredChunks(r) == {<<id, aChunks[id][2]>> : id \in ChunksOf(r)}

\* What needsUpdate answers when nothing interleaves with it and the provider
\* answers with sha.
NeedsUpdateAnswer(row, sha) ==
  IF NeverIndexed(row) THEN TRUE ELSE HashDiffers(row.lastCommitHash, sha)

Failed(p) == proc[p].pc = "failed" /\ proc[p].kind \in IndexKinds
Succeeded(p) == proc[p].pc = "done" /\ proc[p].kind \in IndexKinds

\* --------------------------------------------------------------------- claims

\* C1: two indexRepository calls of the file index for the same repository are
\* never both in the clear-then-write phase at the same time, and once both
\* have finished the stored snapshot is the complete output of one of the two.
C1_MutualExclusion ==
  \A p, q \in Procs :
    (/\ p # q
     /\ proc[p].kind = "fIndex"
     /\ proc[q].kind = "fIndex"
     /\ proc[q].repo = proc[p].repo)
    => /\ ~(proc[p].pc \in WritePhase /\ proc[q].pc \in WritePhase)
       /\ (proc[p].pc = "done" /\ proc[q].pc = "done" /\ faults = 0)
            => FilesOf(proc[p].repo) \in
                 {FileSnap(proc[p].repo, proc[x].hash) : x \in {p, q}}

C3_FreshAfterIndex ==
  [][\A p \in Procs :
       (proc[p].pc = "fUpdate" /\ proc'[p].pc = "done")
         => (NeedsUpdateAnswer(fRepos'[proc[p].repo], provider'[proc[p].repo])
               <=> provider'[proc[p].repo] # proc[p].hash)]_vars

\* C3 witness: a file-index pass has succeeded and the provider still reports
\* the commit it indexed.
C3_Witness ==
  \E p \in Procs :
    /\ proc[p].pc = "done" /\ proc[p].kind = "fIndex"
    /\ fRepos[proc[p].repo].lastCommitHash = proc[p].hash
    /\ provider[proc[p].repo] = proc[p].hash

\* C4: needsUpdate answers false only when the repository has a row with a
\* stored commit, the provider answered, and the stored commit equals the
\* reported one; in every other case (no row, no stored commit, provider error,
\* different commits) it answers true.
C4_NeedsUpdate ==
  \A p \in Procs :
    (proc[p].pc = "done" /\ proc[p].kind = "needsUpdate")
      => /\ proc[p].ans \in {"true", "false"}
         /\ proc[p].ans = "false"
              <=> /\ proc[p].row.exists
                  /\ proc[p].row.lastCommitHash # Null
                  /\ proc[p].err = "none"
                  /\ proc[p].row.lastCommitHash = proc[p].hash

\* C4 witness: a needsUpdate call has answered false.
C4_Witness ==
  \E p \in Procs :
    proc[p].pc = "done" /\ proc[p].kind = "needsUpdate" /\ proc[p].ans = "false"

\* C5: after a successful index pass the stored files (file index) or the
\* stored chunks, symbols and full-text rows (chunk index) of the repository
\* are exactly those of the commit the pass indexed, and every stored symbol's
\* chunk exists.
C5_SnapshotReplaced ==
  \A p \in Procs :
    (Succeeded(p) /\ faults = 0)
      => LET r == proc[p].repo
             c == proc[p].hash
         IN IF proc[p].kind = "fIndex"
              THEN FilesOf(r) = FileSnap(r, c)
              ELSE /\ StoredChunks(r) = ChunkSnap(r, c)
                   /\ \A k \in ChunkIds \X Contents :
                        k[2][1] = r =>
                          /\ aSymbols[k] = IF k \in ChunkSnap(r, c) THEN 1 ELSE 0
                          /\ aFts[k] = IF k \in ChunkSnap(r, c) THEN 1 ELSE 0
                   /\ \A k \in ChunkIds \X Contents :
                        aSymbols[k] > 0 => aChunks[k[1]] # Absent

\* C6: the step by which the source fetch of a pass fails surfaces the error to
\* the caller and changes no stored record; the pass has cleared nothing,
\* written nothing and not updated the repository row.
C6_FetchFailureKeepsSnapshot ==
  [][\A p \in Procs :
       (proc[p].err = "none" /\ proc'[p].err = "SourceUnavailable")
         => /\ proc'[p].pc = "failed"
            /\ UNCHANGED <<fileDb, chunkDb>>
            /\ ~proc[p].cleared /\ ~proc[p].committed
            /\ proc[p].n = 0 /\ proc[p].warned = {}]_vars

\* C6 witness: the fetch of a re-index has failed and the repository still has
\* its recorded commit and its stored files or chunks.
C6_Witness ==
  \E p \in Procs :
    /\ Failed(p) /\ proc[p].err = "SourceUnavailable"
    /\ RowOf(p).lastCommitHash # Null
    /\ IF proc[p].kind = "fIndex" THEN FilesOf(proc[p].repo) # {}
                                  ELSE StoredChunks(proc[p].repo) # {}

\* C7: no index pass is aborted by the failure of a single file (an unreadable
\* file, or a failing write of that file or of one of its chunks).
C7_FileFailureAbsorbed ==
  \A p \in Procs :
    Failed(p) => proc[p].err \notin {"FileUnreadable", "WriteFailure"}

\* C8: no index pass reports success after a storage write of one of its files
\* or chunks has failed.
C8_WriteFailurePropagates ==
  \A p \in Procs :
    Succeeded(p) => "WriteFailure" \notin proc[p].warned

\* C9: the rows a file search reads from an indexed repository are the complete
\* snapshot of the repository at one commit, never a part of one and never a
\* mix of two, also while a re-index is in progress.
C9_QuerySeesWholeSnapshot ==
  [][\A p \in Procs :
       (/\ proc[p].pc = "fqSelect" /\ proc'[p].pc = "done" /\ faults = 0
        /\ fRepos[proc[p].repo].lastCommitHash # Null)
         => proc'[p].res \in {FileSnap(proc[p].repo, c) : c \in Commits}]_vars

\* C10: no step of a query operation changes a stored record.
C10_QueriesReadOnly ==
  [][\A p \in Procs :
       (proc[p].kind \in QueryKinds /\ proc'[p] # proc[p])
         => UNCHANGED <<fileDb, chunkDb>>]_vars

\* ---------------------------------------------------------------- C11
SearchKinds == {"fSearch", "aSearch"}

\* The repository the search names has no snapshot in the index it reads.
NoSnapshot(p) ==
  IF proc[p].kind = "aSearch"
    THEN aRepos[proc[p].repo].lastCommitHash = Null /\ ChunksOf(proc[p].repo) = {}
    ELSE fRepos[proc[p].repo].lastCommitHash = Null /\ FilesOf(proc[p].repo) = {}

\* C11: a search of a repository with no snapshot, with no storage failure
\* injected, ends normally and with an empty result set.
C11_NoSnapshotEmptyResult ==
  [][\A p \in Procs :
       (/\ proc[p].kind \in SearchKinds
        /\ proc[p].pc \notin {"done", "failed"}
        /\ proc'[p].pc \in {"done", "failed"}
        /\ faults' = 0
        /\ NoSnapshot(p))
         => (proc'[p].pc = "done" /\ proc'[p].res = {})]_vars

\* ============================================================ pure functions
\* The specifications below evaluate one pure function of the services on
\* arguments drawn from bounded sets; the stores stay as constructed.
Quiet ==
  /\ roles = [p \in Procs |-> {}]
  /\ targets = {"rA"}
  /\ InitDb

\* --------------------------------------------------------- cosineSimilarity
MaxDim == 2                 \* longest embedding
Coords == {-1, 0, 1}        \* coordinates of an embedding
Vectors == UNION {[1..n -> Coords] : n \in 0..MaxDim}

RECURSIVE SumProd(_, _, _)
\* for (i = 0; i < a.length; i++) acc += a[i] * b[i]
SumProd(a, b, i) == IF i > Len(a) THEN 0 ELSE a[i] * b[i] + SumProd(a, b, i + 1)

\* A JS number produced by the division: dot / sqrt(den2), or NaN, or an infinity.
Num(d, n2) == [kind |-> "num", dot |-> d, den2 |-> n2]
NaN == [kind |-> "nan", dot |-> 0, den2 |-> 0]
Infinity(d) == [kind |-> "inf", dot |-> d, den2 |-> 0]
Pending == [kind |-> "pending", dot |-> 0, den2 |-> 0]

\* dotProduct / (Math.sqrt(normA) * Math.sqrt(normB)) in IEEE arithmetic:
\* 0/0 is NaN, x/0 is an infinity.
Divide(d, normA, normB) ==
  IF normA * normB = 0
    THEN (IF d = 0 THEN NaN ELSE Infinity(d))
    ELSE Num(d, normA * normB)

cosineSimilarity(a, b) ==
  IF Len(a) # Len(b)
    THEN Num(0, 1)
    ELSE Divide(SumProd(a, b, 1), SumProd(a, a, 1), SumProd(b, b, 1))

InitCos ==
  /\ Quiet
  /\ calc \in [fn : {"cos"}, a : Vectors, b : Vectors, out : {Pending}]

CosEval ==
  /\ calc.fn = "cos"
  /\ calc.out = Pending
  /\ calc' = [calc EXCEPT !.out = cosineSimilarity(calc.a, calc.b)]
  /\ UNCHANGED <<roles, targets, provider, pushes, fileDb, fTemp, chunkDb, aTemp,
                 proc, started, faults>>

NextCos == CosEval

SpecCos == InitCos /\ [][NextCos]_vars

IsZeroNumber(x) == x.kind = "num" /\ x.dot = 0
InUnitRange(x) == x.kind = "num" /\ x.dot * x.dot <= x.den2
ZeroNorm(a) == SumProd(a, a, 1) = 0

\* C12: cosineSimilarity is symmetric, within [-1, 1] for non-zero vectors of
\* equal length, and exactly 0 for vectors of different length or of zero norm
\* (two empty vectors included).
C12_CosineContract ==
  (calc.fn = "cos" /\ calc.out # Pending)
    => /\ calc.out = cosineSimilarity(calc.b, calc.a)
       /\ (Len(calc.a) = Len(calc.b) /\ ~ZeroNorm(calc.a) /\ ~ZeroNorm(calc.b))
            => InUnitRange(calc.out)
       /\ (Len(calc.a) # Len(calc.b) \/ ZeroNorm(calc.a) \/ ZeroNorm(calc.b))
            => IsZeroNumber(calc.out)

\* ------------------------------------- searchRelevantFiles: scoring one file
\* Strings are sequences of characters; "B" stands for an upper-case letter.
Chars == {"b", "B", "'", "\"", " "}
Strings(alphabet, n) == UNION {[1..k -> alphabet] : k \in 0..n}

\* String.prototype.toLowerCase
toLowerCase(s) == [i \in DOMAIN s |-> IF s[i] = "B" THEN "b" ELSE s[i]]

\* String.prototype.includes
includes(s, t) == \E i \in 0..(Len(s) - Len(t)) : SubSeq(s, i + 1, i + Len(t)) = t

\* The first index after i holding the character q, 0 when there is none.
IndexAfter(s, q, i) ==
  LET later == {k \in (i + 1)..Len(s) : s[k] = q}
  IN IF later = {} THEN 0 ELSE CHOOSE k \in later : \A m \in later : k <= m

RECURSIVE QuoteScan(_, _, _)
\* taskDescription.match(/q([^q]+)q/g) from index i on: the non-overlapping
\* leftmost matches, each with its two delimiters.
QuoteScan(s, q, i) ==
  IF i > Len(s) THEN <<>>
  ELSE IF s[i] # q THEN QuoteScan(s, q, i + 1)
  ELSE LET k == IndexAfter(s, q, i)
       IN IF k = 0 THEN <<>>
          ELSE IF k = i + 1 THEN QuoteScan(s, q, i + 1)
          ELSE <<SubSeq(s, i, k)>> \o QuoteScan(s, q, k + 1)

\* match(/'([^']+)'/g) || match(/"([^"]+)"/g) || []
quotedMatches(s) ==
  IF QuoteScan(s, "'", 1) # <<>> THEN QuoteScan(s, "'", 1) ELSE QuoteScan(s, "\"", 1)

\* quotedMatch.replace(/['"]/g, '').toLowerCase()
cleanQuote(m) == toLowerCase(SelectSeq(m, LAMBDA ch : ch \notin {"'", "\""}))

\* isChangeTask ? [quotedMatches[0]] : quotedMatches
quotesToCheck(task) ==
  IF task.change /\ quotedMatches(task.text) # <<>>
    THEN <<quotedMatches(task.text)[1]>>
    ELSE quotedMatches(task.text)

RECURSIVE Split(_, _)
\* split(/\s+/): the blank-free runs of s, cur being the run read so far (the
\* empty strings split also yields never pass the length test that follows).
Split(s, cur) ==
  LET word == IF cur = <<>> THEN <<>> ELSE <<cur>>
  IN IF s = <<>> THEN word
     ELSE IF Head(s) = " " THEN word \o Split(Tail(s), <<>>)
     ELSE Split(Tail(s), Append(cur, Head(s)))

\* The rows of table files the scoring loop may meet: path, getFileType(path).
FilePaths == {<<"index.html", "page">>, <<"about.html", "page">>, <<"old.htm", "page">>,
              <<"main.css", "style">>, <<"App.tsx", "component">>,
              <<"package.json", "config">>}

IsHtml(path) == path \in {"index.html", "about.html"}

\* Scores are kept in tenths: score is sem + boost / 10, sem the cosine term.
RECURSIVE QuoteBoost(_, _)
\* for (const quotedMatch of quotesToCheck) if (includes) score += 2.0
QuoteBoost(qs, content) ==
  IF qs = <<>> THEN <<>>
  ELSE (IF includes(toLowerCase(content), cleanQuote(Head(qs)))
          THEN <<<<"exact", cleanQuote(Head(qs)), 20>>>> ELSE <<>>)
       \o QuoteBoost(Tail(qs), content)

RECURSIVE WordBoost(_, _)
\* for (const word of taskWords) if (word.length > 3 && includes) score += 0.3
WordBoost(ws, content) ==
  IF ws = <<>> THEN <<>>
  ELSE (IF Len(Head(ws)) > 3 /\ includes(toLowerCase(content), Head(ws))
          THEN <<<<"word", Head(ws), 3>>>> ELSE <<>>)
       \o WordBoost(Tail(ws), content)

\* The boosts of the loop body, in the order the code adds them: <<tag, text, tenths>>.
Boosts(task, file) ==
  (IF task.ui
     THEN (IF file.path = "index.html" THEN <<<<"main html", <<>>, 30>>>>
           ELSE IF IsHtml(file.path) THEN <<<<"html ui", <<>>, 15>>>>
           ELSE IF file.fileType = "page" THEN <<<<"page ui", <<>>, 8>>>>
           ELSE <<>>)
     ELSE <<>>)
  \o (IF task.style /\ file.fileType = "style" THEN <<<<"styling", <<>>, 4>>>> ELSE <<>>)
  \o (IF IsHtml(file.path) THEN <<<<"html", <<>>, 5>>>> ELSE <<>>)
  \o QuoteBoost(quotesToCheck(task), file.content)
  \o (IF task.change THEN WordBoost(Split(toLowerCase(task.text), <<>>), file.content) ELSE <<>>)
  \o (IF file.fileType \in task.typeWords \cap {"component", "api", "page"}
        THEN <<<<"type", <<>>, 3>>>> ELSE <<>>)
  \o (IF file.path = "package.json" THEN <<<<"config", <<>>, 2>>>> ELSE <<>>)

RECURSIVE SumBoosts(_)
SumBoosts(bs) == IF bs = <<>> THEN 0 ELSE Head(bs)[3] + SumBoosts(Tail(bs))

\* fileEmbedding.length > 0 ? cosineSimilarity(taskEmbedding, fileEmbedding) : 0
Semantic(task, file) ==
  IF Len(file.emb) > 0 THEN cosineSimilarity(task.emb, file.emb) ELSE Num(0, 1)

\* score > 0.1, score being x.dot / sqrt(x.den2) + tenths / 10; NaN compares false.
AboveThreshold(x, tenths) ==
  /\ x.kind = "num"
  /\ LET lhs == 10 * x.dot        \* lhs / sqrt(den2) > rhs
         rhs == 1 - tenths
     IN IF rhs < 0 THEN lhs >= 0 \/ lhs * lhs < rhs * rhs * x.den2
        ELSE lhs > 0 /\ lhs * lhs > rhs * rhs * x.den2

\* One iteration of the loop over the files: the score, its reason, and whether
\* the file is pushed to the results.
ScoreFile(task, file) ==
  LET sem == Semantic(task, file)
      bs == Boosts(task, file)
  IN [sem |-> sem, boosts |-> bs,
      semantic |-> Len(file.emb) > 0,
      kept |-> AboveThreshold(sem, SumBoosts(bs))]

\* The task descriptions and rows a search is evaluated on.  A task is the text
\* the quotations are read from, the key words found in it, and its embedding.
Tasks(texts) ==
  [emb : Vectors \ {<<>>}, ui : BOOLEAN, style : BOOLEAN, change : BOOLEAN,
   typeWords : {{}, {"component"}, {"page"}}, text : texts]
Rows(contents) ==
  {[path |-> pt[1], fileType |-> pt[2], emb |-> e, content |-> c] :
     pt \in FilePaths, e \in Vectors, c \in contents}

InitScore ==
  /\ Quiet
  /\ calc \in [fn : {"score"},
               task : Tasks({<<>>, <<"'", "B", "'">>, <<"b", "B", "b", "b", " ", "b">>}),
               file : Rows({<<>>, <<"b">>, <<"B", "b", "b", "b">>}),
               out : {Pending}]

ScoreEval ==
  /\ calc.fn = "score"
  /\ calc.out = Pending
  /\ calc' = [calc EXCEPT !.out = ScoreFile(calc.task, calc.file)]
  /\ UNCHANGED <<roles, targets, provider, pushes, fileDb, fTemp, chunkDb, aTemp,
                 proc, started, faults>>

NextScore == ScoreEval

SpecScore == InitScore /\ [][NextScore]_vars

\* ---------------------------------------------------------------- C13
NoVectorSignal(task, file) ==
  file.emb = <<>> \/ ZeroNorm(file.emb) \/ ZeroNorm(task.emb)

\* C13: a file whose stored embedding is empty or all zeros, or one scored
\* against an all-zero task embedding, gets a vector score of 0 and is returned
\* exactly when its boosts alone exceed the threshold of 0.1.
C13_ZeroEmbeddingNoSignal ==
  (calc.fn = "score" /\ calc.out # Pending /\ NoVectorSignal(calc.task, calc.file))
    => /\ IsZeroNumber(calc.out.sem)
       /\ calc.out.kept <=> SumBoosts(calc.out.boosts) > 1

\* ------------------------------------ searchRelevantChunks: fuseAndRerank
\* Chunk ids are numbered in their string order; scores are in thousandths and
\* fused scores in millionths.
MaxCands == 2
CandIds == 1..MaxCands
LexScores == {5000, 12000}     \* |bm25| of a lexical hit
VecScores == {250, 1000}       \* similarities vectorSearch keeps (> 0.1)
StructScores == {500, 1000}    \* sums of structural boosts

\* A Map<string, number> in insertion order: a sequence of <<id, score>> with distinct ids.
ScoreMaps(scores) ==
  {m \in UNION {[1..n -> CandIds \X scores] : n \in 0..MaxCands} :
     \A i, j \in DOMAIN m : i # j => m[i][1] # m[j][1]}

\* map.get(id) || 0
MapGet(m, id) ==
  IF \E i \in DOMAIN m : m[i][1] = id
    THEN m[CHOOSE i \in DOMAIN m : m[i][1] = id][2]
    ELSE 0

RECURSIVE AllChunkIds(_, _)
\* new Set([...lexical.keys(), ...vector.keys(), ...structural.keys()]): the
\* keys in the order of their first appearance.
AllChunkIds(entries, seen) ==
  IF entries = <<>> THEN <<>>
  ELSE IF Head(entries)[1] \in seen THEN AllChunkIds(Tail(entries), seen)
  ELSE <<Head(entries)[1]>> \o AllChunkIds(Tail(entries), seen \cup {Head(entries)[1]})

Min(x, y) == IF x < y THEN x ELSE y
Max(x, y) == IF x > y THEN x ELSE y

\* normalizeScore without the clamp to [0, 1].
normalizeScore_Unclamped(score, min, max) == ((score - min) * 1000) \div (max - min)

\* Math.max(0, Math.min(1, (score - min) / (max - min))), in thousandths
normalizeScore(score, min, max) ==
  Max(0, Min(1000, ((score - min) * 1000) \div (max - min)))

\* 0.3 * normalizeScore(lexicalScore, 0, 10) + 0.4 * vectorScore + 0.3 * structuralScore
FusedScore(lexicalScore, vectorScore, structuralScore) ==
  300 * normalizeScore(lexicalScore, 0, 10000) + 400 * vectorScore + 300 * structuralScore

\* The result pushed for one candidate.  cand is the loop variable chunkId: the
\* code does not store it in the result, the model keeps it to state properties.
FuseOne(lexical, vector, structural, chunkId) ==
  [chunk |-> <<>>,
   lexicalScore |-> MapGet(lexical, chunkId),
   vectorScore |-> MapGet(vector, chunkId),
   structuralScore |-> MapGet(structural, chunkId),
   fusedScore |-> FusedScore(MapGet(lexical, chunkId), MapGet(vector, chunkId),
                             MapGet(structural, chunkId)),
   cand |-> chunkId]

RECURSIVE InsertSorted(_, _)
\* The place of r in a list sorted descending by fusedScore, behind its equals.
InsertSorted(r, sorted) ==
  IF sorted = <<>> THEN <<r>>
  ELSE IF Head(sorted).fusedScore >= r.fusedScore
    THEN <<Head(sorted)>> \o InsertSorted(r, Tail(sorted))
    ELSE <<r>> \o sorted

RECURSIVE SortByFused(_)
\* results.sort((a, b) => b.fusedScore - a.fusedScore): a stable sort
SortByFused(rs) ==
  IF rs = <<>> THEN <<>>
  ELSE InsertSorted(rs[Len(rs)], SortByFused(SubSeq(rs, 1, Len(rs) - 1)))

fuseAndRerank(lexical, vector, structural) ==
  LET ids == AllChunkIds(lexical \o vector \o structural, {})
      all == [i \in DOMAIN ids |-> FuseOne(lexical, vector, structural, ids[i])]
  IN SortByFused(SelectSeq(all, LAMBDA r : r.fusedScore > 100000))

\* fusedResults.slice(0, limit)
Slice(rs, limit) == SubSeq(rs, 1, Min(limit, Len(rs)))

InitFuse ==
  /\ Quiet
  /\ calc \in [fn : {"fuse"}, lexical : ScoreMaps(LexScores), vector : ScoreMaps(VecScores),
               structural : ScoreMaps(StructScores), limit : 0..MaxCands,
               done : {FALSE}, fused : {<<>>}, out : {<<>>}]

\* searchRelevantChunks once the three searches have returned their maps.
FuseEval ==
  /\ calc.fn = "fuse"
  /\ ~calc.done
  /\ LET fused == fuseAndRerank(calc.lexical, calc.vector, calc.structural)
     IN calc' = [calc EXCEPT !.done = TRUE, !.fused = fused,
                             !.out = Slice(fused, calc.limit)]
  /\ UNCHANGED <<roles, targets, provider, pushes, fileDb, fTemp, chunkDb, aTemp,
                 proc, started, faults>>

NextFuse == FuseEval

SpecFuse == InitFuse /\ [][NextFuse]_vars

\* ---------------------------------------------------------------- C14
\* The ids the loop of fuseAndRerank iterates over.
Candidates == {e[1] : e \in Range(calc.lexical \o calc.vector \o calc.structural)}

\* 0.3 * clamp(l / 10, 0, 1) + 0.4 * v + 0.3 * s, in millionths
WeightedSum(l, v, s) ==
  300 * (IF l >= 10000 THEN 1000 ELSE IF l <= 0 THEN 0 ELSE l \div 10) + 400 * v + 300 * s

\* C14: every candidate's fused score is 0.3 * clamp(lexical / 10, 0, 1) +
\* 0.4 * vector + 0.3 * structural with absent signals counted as 0, it does not
\* decrease when one signal grows, and the candidate is kept exactly when the
\* fused score exceeds 0.1.
C14_FusionFormula ==
  (calc.fn = "fuse" /\ calc.done)
    => \A id \in CandIds :
         LET l == MapGet(calc.lexical, id)
             v == MapGet(calc.vector, id)
             s == MapGet(calc.structural, id)
             hits == {i \in DOMAIN calc.fused : calc.fused[i].cand = id}
         IN /\ Cardinality(hits) <= 1
            /\ hits # {} <=> (id \in Candidates /\ WeightedSum(l, v, s) > 100000)
            /\ \A i \in hits : calc.fused[i].fusedScore = WeightedSum(l, v, s)
            /\ \A l2 \in LexScores : l2 >= l => FusedScore(l2, v, s) >= FusedScore(l, v, s)
            /\ \A v2 \in VecScores : v2 >= v => FusedScore(l, v2, s) >= FusedScore(l, v, s)
            /\ \A s2 \in StructScores : s2 >= s => FusedScore(l, v, s2) >= FusedScore(l, v, s)

\* A search with a kept candidate whose lexical score is above the ceiling and
\* whose vector signal is absent, and with a candidate dropped at the threshold.
C14_Witness ==
  /\ calc.fn = "fuse" /\ calc.done
  /\ \E i \in DOMAIN calc.fused :
       calc.fused[i].lexicalScore = 12000 /\ calc.fused[i].vectorScore = 0
  /\ \E id \in Candidates : \A i \in DOMAIN calc.fused : calc.fused[i].cand # id

\* ---------------------------------------------------------------- C15
\* C15: a search returns at most limit results, sorted descending by fused
\* score, and results of equal fused score are ordered by chunk id.
C15_TopNOrderedById ==
  (calc.fn = "fuse" /\ calc.done)
    => /\ Len(calc.out) <= calc.limit
       /\ \A i, j \in DOMAIN calc.out :
            i < j => \/ calc.out[i].fusedScore > calc.out[j].fusedScore
                     \/ /\ calc.out[i].fusedScore = calc.out[j].fusedScore
                        /\ calc.out[i].cand < calc.out[j].cand

\* ---------------------------------------------------------------- C16
\* C16: every result returned carries the chunk it was scored for.
C16_ResultCarriesChunk ==
  (calc.fn = "fuse" /\ calc.done)
    => \A i \in DOMAIN calc.out : calc.out[i].chunk = <<calc.out[i].cand>>

\* ------------------------------------------- searchRelevantFiles: two rows
MaxText == 5       \* longest task description
MaxContent == 3    \* longest file content

\* A task about a quoted text: no key word but possibly change/replace/update.
QuoteTasks ==
  [emb : {<<1>>}, ui : {FALSE}, style : {FALSE}, change : BOOLEAN, typeWords : {{}},
   text : Strings(Chars \ {" "}, MaxText)]

InitQuote ==
  /\ Quiet
  /\ calc \in [fn : {"rows"}, task : QuoteTasks,
               files : [1..2 -> Rows(Strings({"b", "'"}, MaxContent))
                                  \cap [path : {"App.tsx"}, fileType : {"component"},
                                        emb : {<<1>>}, content : Seq(Chars)]],
               done : {FALSE}, out : {<<>>}]

\* The loop of searchRelevantFiles over the rows of the repository.
ScoreRows ==
  /\ calc.fn = "rows"
  /\ ~calc.done
  /\ calc' = [calc EXCEPT !.done = TRUE,
                          !.out = [i \in DOMAIN calc.files |-> ScoreFile(calc.task, calc.files[i])]]
  /\ UNCHANGED <<roles, targets, provider, pushes, fileDb, fTemp, chunkDb, aTemp,
                 proc, started, faults>>

NextQuote == ScoreRows

SpecQuote == InitQuote /\ [][NextQuote]_vars

\* ---------------------------------------------------------------- C17
\* The quotations a reader finds in the text, with either kind of quote mark.
Quotations(s) == Range(QuoteScan(s, "'", 1)) \cup Range(QuoteScan(s, "\"", 1))

\* The exact-match entries among the boosts of a scored row.
ExactBonus(scored) == SelectSeq(scored.boosts, LAMBDA b : b[1] = "exact")

\* C17: for a query with one quoted string, a row receives the exact-match
\* bonus of 2.0, with the reason naming the text, when its content contains the
\* quoted string (case-insensitive), and no exact-match bonus otherwise.
C17_QuotedTextBoost ==
  (calc.fn = "rows" /\ calc.done /\ Cardinality(Quotations(calc.task.text)) = 1)
    => \A m \in Quotations(calc.task.text) : \A i \in DOMAIN calc.files :
         LET literal == toLowerCase(SubSeq(m, 2, Len(m) - 1))
         IN IF includes(toLowerCase(calc.files[i].content), literal)
              THEN ExactBonus(calc.out[i]) = <<<<"exact", literal, 20>>>>
              ELSE ExactBonus(calc.out[i]) = <<>>

\* ---------------------------------------------------------------- C18
\* C18: a pass that nothing disturbs stores exactly the snapshot of the commit
\* it cloned and does not fail, also when the repository already holds that
\* same commit: indexing a commit twice leaves what indexing it once leaves.
C18_Idempotent ==
  [][\A p \in Procs :
       (proc[p].kind \in IndexKinds /\ faults' = 0)
         => /\ proc'[p].pc # "failed"
            /\ (proc[p].pc # "done" /\ proc'[p].pc = "done")
                 => IF proc[p].kind = "aIndex"
                      THEN StoredChunks(proc[p].repo)' = ChunkSnap(proc[p].repo, proc[p].hash)
                      ELSE FilesOf(proc[p].repo)' = FileSnap(proc[p].repo, proc[p].hash)]_vars

\* A second pass over the commit the chunk index already holds has just ended.
C18_Witness ==
  \E p \in Procs :
    /\ Succeeded(p) /\ proc[p].kind = "aIndex" /\ faults = 0
    /\ aRepos[proc[p].repo].total = proc[p].n
    /\ started >= 2
    /\ \A k \in ChunkIds \X Contents : aSymbols[k] \in {0, 2}
    /\ \E k \in ChunkIds \X Contents : aSymbols[k] = 2

\* ------------------------------------------------------ parseFileIntoChunks
\* A file's content is the sequence of its lines, none for the empty file; a
\* line is the sequence of the pattern matches starting on it, each match
\* <<pattern, number of lines it spans>>.
MaxLines == 120       \* longest file without matches
MaxSrcLines == 2      \* longest file with matches
MaxMatches == 2       \* most matches starting on one line
chunkSize == 50       \* parseGenericChunks: lines per chunk
jsChunkLines == 10    \* parseJSChunks: "default chunk size"

\* The patterns of a language, in the order forEach visits them, with the type
\* that goes into the chunk id.
Patterns(language) ==
  IF language = "html"
    THEN <<<<"title", "element">>, <<"h", "element">>, <<"header", "element">>,
           <<"nav", "element">>, <<"script", "block">>>>
  ELSE IF language = "javascript"
    THEN <<<<"function", "function">>, <<"class", "class">>, <<"const", "variable">>,
           <<"import", "import">>>>
  ELSE <<>>

\* The chunk pushed for one window, match or section.
Chunk(filePath, startLine, endLine, type, content) ==
  [id |-> <<filePath, startLine, endLine, type>>, startLine |-> startLine,
   endLine |-> endLine, content |-> content]

\* lines.slice(start - 1, end)
LineSlice(lines, start, end) == SubSeq(lines, start, Min(end, Len(lines)))

RECURSIVE parseGenericChunks_Unclipped(_, _, _)
\* parseGenericChunks with endLine = i + chunkSize, not cut at the last line.
parseGenericChunks_Unclipped(filePath, lines, i) ==
  IF i >= Len(lines) THEN <<>>
  ELSE <<Chunk(filePath, i + 1, i + chunkSize, "block",
               LineSlice(lines, i + 1, i + chunkSize))>>
       \o parseGenericChunks_Unclipped(filePath, lines, i + chunkSize)

RECURSIVE parseGenericChunks(_, _, _)
\* for (let i = 0; i < lines.length; i += chunkSize)
parseGenericChunks(filePath, lines, i) ==
  IF i >= Len(lines) THEN <<>>
  ELSE <<Chunk(filePath, i + 1, Min(i + chunkSize, Len(lines)), "block",
               LineSlice(lines, i + 1, Min(i + chunkSize, Len(lines))))>>
       \o parseGenericChunks(filePath, lines, i + chunkSize)

RECURSIVE MatchChunks(_, _, _, _, _, _)
\* while ((match = pattern.exec(content)) !== null): the matches of one pattern
\* from line ln, match k on.  An HTML chunk ends where its match ends, a
\* JavaScript chunk jsChunkLines below its first line.
MatchChunks(language, filePath, lines, pat, ln, k) ==
  IF ln > Len(lines) THEN <<>>
  ELSE IF k > Len(lines[ln]) THEN MatchChunks(language, filePath, lines, pat, ln + 1, 1)
  ELSE (IF lines[ln][k][1] = pat[1]
          THEN <<IF language = "html"
                   THEN Chunk(filePath, ln, ln + lines[ln][k][2] - 1, pat[2],
                              <<<<lines[ln][k]>>>>)
                   ELSE Chunk(filePath, ln, ln + jsChunkLines, pat[2],
                              LineSlice(lines, ln, ln + jsChunkLines))>>
          ELSE <<>>)
       \o MatchChunks(language, filePath, lines, pat, ln, k + 1)

RECURSIVE PatternChunks(_, _, _, _)
\* patterns.forEach(...)
PatternChunks(language, filePath, lines, pats) ==
  IF pats = <<>> THEN <<>>
  ELSE MatchChunks(language, filePath, lines, Head(pats), 1, 1)
       \o PatternChunks(language, filePath, lines, Tail(pats))

\* parseHTMLChunks / parseJSChunks, with the fallback when nothing matched, and
\* parseGenericChunks for the other languages.
parseFileIntoChunks(language, filePath, lines) ==
  LET chunks == PatternChunks(language, filePath, lines, Patterns(language))
  IN IF chunks = <<>> THEN parseGenericChunks(filePath, lines, 0) ELSE chunks

\* Files of n lines whose lines hold up to MaxMatches of the given matches.
SourceFiles(matches) ==
  UNION {[1..n -> UNION {[1..k -> matches] : k \in 0..MaxMatches}] : n \in 0..MaxSrcLines}

\* content.split('\n'): the lines of the content; the empty string, which has no
\* line, yields one empty line.
split(content) == IF content = <<>> THEN <<<<>>>> ELSE content

InitChunk ==
  /\ Quiet
  /\ calc \in [fn : {"chunk"}, language : {"html"}, filePath : {"a"}, done : {FALSE},
               content : SourceFiles({<<"title", 1>>, <<"h", 1>>, <<"h", 2>>, <<"script", 1>>}),
               out : {<<>>}]
          \cup [fn : {"chunk"}, language : {"javascript"}, filePath : {"a"}, done : {FALSE},
                content : SourceFiles({<<"function", 1>>, <<"const", 1>>, <<"import", 1>>}),
                out : {<<>>}]
          \cup [fn : {"chunk"}, language : {"text"}, filePath : {"a"}, done : {FALSE},
                content : {[i \in 1..n |-> <<>>] : n \in 0..MaxLines}, out : {<<>>}]

ChunkEval ==
  /\ calc.fn = "chunk"
  /\ ~calc.done
  /\ calc' = [calc EXCEPT !.done = TRUE,
                          !.out = parseFileIntoChunks(calc.language, calc.filePath, split(calc.content))]
  /\ UNCHANGED <<roles, targets, provider, pushes, fileDb, fTemp, chunkDb, aTemp,
                 proc, started, faults>>

NextChunk == ChunkEval

SpecChunk == InitChunk /\ [][NextChunk]_vars

\* ---------------------------------------------------------------- C19
\* C19: the chunks of one file have pairwise distinct ids, so each of them can
\* be stored under its id.
C19_ChunkIdsUnique ==
  (calc.fn = "chunk" /\ calc.done)
    => \A i, j \in DOMAIN calc.out : i # j => calc.out[i].id # calc.out[j].id

\* ---------------------------------------------------------------- C20
\* C20: the chunks of a file that enters the generic chunker are consecutive
\* windows of at most chunkSize lines: the first starts at line 1, each starts
\* right after the one before, the last ends at the last line, and each holds
\* the lines of its range.
C20_GenericCoverage ==
  (calc.fn = "chunk" /\ calc.done
     /\ PatternChunks(calc.language, calc.filePath, split(calc.content), Patterns(calc.language)) = <<>>)
    => /\ calc.out # <<>>
       /\ calc.out[1].startLine = 1
       /\ calc.out[Len(calc.out)].endLine = Len(split(calc.content))
       /\ \A i \in DOMAIN calc.out :
            /\ calc.out[i].startLine <= calc.out[i].endLine
            /\ calc.out[i].endLine - calc.out[i].startLine + 1 = chunkSize
                 \/ (i = Len(calc.out) /\ calc.out[i].endLine - calc.out[i].startLine < chunkSize)
            /\ i > 1 => calc.out[i].startLine = calc.out[i - 1].endLine + 1
            /\ calc.out[i].content = SubSeq(split(calc.content), calc.out[i].startLine, calc.out[i].endLine)

\* A file of more than two windows, the last one shorter than the others.
C20_Witness ==
  /\ calc.fn = "chunk" /\ calc.done /\ calc.language = "text"
  /\ Len(calc.out) = 3
  /\ calc.out[3].endLine - calc.out[3].startLine + 1 < chunkSize

\* ---------------------------------------------------------------- C21
\* C21: an empty file yields no chunk, whatever its language.
C21_EmptyFileNoChunks ==
  (calc.fn = "chunk" /\ calc.done /\ calc.content = <<>>) => calc.out = <<>>

C23_FailedPassIsStale ==
  \A p \in Procs :
    (Failed(p) /\ proc[p].kind = "fIndex" /\ proc[p].cleared)
      => NeedsUpdateAnswer(fRepos[proc[p].repo], provider[proc[p].repo])

\* ------------------------------------- searchRelevantChunks: structuralSearch
\* Texts are sequences of words.  Chunk 1 is the <header> element of the .html
\* file, chunk 2 a section of the unrelated .md file.
SymbolRows ==
  {[chunkId |-> 1, name |-> <<"site">>, symbolType |-> "element",
    context |-> <<"header", "site", "header">>],
   [chunkId |-> 2, name |-> <<"notes">>, symbolType |-> "element",
    context |-> <<"notes", "todo">>]}

\* results.set(match.id, existingScore + boost) on a Map kept in insertion order
MapAdd(m, id, boost) ==
  IF \E i \in DOMAIN m : m[i][1] = id
    THEN [i \in DOMAIN m |-> IF m[i][1] = id THEN <<id, m[i][2] + boost>> ELSE m[i]]
    ELSE Append(m, <<id, boost>>)

RECURSIVE structuralSearch(_, _, _)
\* The rows of symbols JOIN chunks WHERE name LIKE %query% OR context LIKE
\* %query% OR symbolType = query, each adding its boost to its chunk.
structuralSearch(rows, query, results) ==
  IF rows = <<>> THEN results
  ELSE LET row == Head(rows)
           selected == \/ includes(row.name, query)
                       \/ includes(row.context, query)
                       \/ <<row.symbolType>> = query
           boost == IF includes(query, <<"header">>) /\ row.symbolType = "element" THEN 1000
                    ELSE IF includes(query, <<"function">>) /\ row.symbolType = "function"
                      THEN 800
                    ELSE 500
       IN structuralSearch(Tail(rows), query,
                           IF selected THEN MapAdd(results, row.chunkId, boost) ELSE results)

InitStruct ==
  /\ Quiet
  /\ calc \in [fn : {"struct"},
               query : {<<"header">>, <<"change", "header">>, <<"header", "color">>, <<"notes">>},
               symbols : UNION {[1..n -> SymbolRows] : n \in 0..MaxCands},
               lexical : ScoreMaps(LexScores),
               done : {FALSE}, structural : {<<>>}, out : {<<>>}]

\* searchRelevantChunks without an embedding model: lexical and structural
\* search, fusion.
StructEval ==
  /\ calc.fn = "struct"
  /\ ~calc.done
  /\ LET structural == structuralSearch(calc.symbols, calc.query, <<>>)
     IN calc' = [calc EXCEPT !.done = TRUE, !.structural = structural,
                             !.out = fuseAndRerank(calc.lexical, <<>>, structural)]
  /\ UNCHANGED <<roles, targets, provider, pushes, fileDb, fTemp, chunkDb, aTemp,
                 proc, started, faults>>

NextStruct == StructEval

SpecStruct == InitStruct /\ [][NextStruct]_vars

\* ---------------------------------------------------------------- C24
\* C24: for a query with the word "header", the structural score of the HTML
\* chunk is 1.0 for each of its element symbols holding a <header>, and the
\* HTML chunk precedes the markdown chunk when its fused score is the higher.
C24_HeaderBoost ==
  (calc.fn = "struct" /\ calc.done /\ includes(calc.query, <<"header">>))
    => /\ MapGet(calc.structural, 1)
            = 1000 * Cardinality({i \in DOMAIN calc.symbols :
                                    /\ calc.symbols[i].chunkId = 1
                                    /\ calc.symbols[i].symbolType = "element"
                                    /\ includes(calc.symbols[i].context, <<"header">>)})
       /\ \A i, j \in DOMAIN calc.out :
            (calc.out[i].cand = 1 /\ calc.out[j].cand = 2
               /\ calc.out[i].fusedScore > calc.out[j].fusedScore) => i < j


\* ---------------------------------------------------------------- C25
\* C25: a chunk of the JavaScript chunker starts at its match and ends
\* jsChunkLines lines below it or at the last line of the file, whichever comes
\* first; its content is exactly the lines from startLine to endLine.
C25_JsChunkClipped ==
  (calc.fn = "chunk" /\ calc.done /\ calc.language = "javascript")
    => \A i \in DOMAIN calc.out :
         calc.out[i].id[4] # "block"
           => /\ calc.out[i].endLine
                   = Min(calc.out[i].startLine + jsChunkLines, Len(split(calc.content)))
              /\ calc.out[i].endLine <= Len(split(calc.content))
              /\ calc.out[i].id[3] <= Len(split(calc.content))
              /\ calc.out[i].content
                   = SubSeq(split(calc.content), calc.out[i].startLine, calc.out[i].endLine)


\* ---------------------------------------------------------------- C26
\* C26: when an index pass has succeeded, the total on the repository's row
\* (totalFiles, totalChunks) is the number of file or chunk rows stored for
\* the repository.
C26_TotalMatchesStored ==
  \A p \in Procs :
    Succeeded(p)
      => RowOf(p).total = IF proc[p].kind = "aIndex"
                            THEN Cardinality(ChunksOf(proc[p].repo))
                            ELSE Cardinality(FilesOf(proc[p].repo))


\* ------------------------------------------------ passes over two repositories
\* The index passes alone, as getRepositoryContext and the index route start
\* them, over both repositories.
NextIndex ==
  \/ \E p \in Procs :
       \/ Start(p) \/ Return(p)
       \/ FGetRepo(p) \/ FInsRepo(p) \/ FClone(p) \/ FLog(p)
       \/ FClear(p) \/ FFile(p) \/ FWrite(p) \/ FUpdate(p)
       \/ AClone(p) \/ AGetRepo(p) \/ AInsRepo(p) \/ AClearChunks(p)
       \/ AClearSymbols(p) \/ AClearFts(p) \/ AFile(p) \/ AWrite(p) \/ AUpdate(p)
  \/ ProviderPush

\* Two callers index, each any of the two repositories.
InitTwo ==
  /\ roles = [p \in Procs |-> IndexKinds]
  /\ targets = Repos
  /\ InitDb
  /\ calc = NoCalc

SpecTwo == InitTwo /\ [][NextIndex]_vars

\* ---------------------------------------------------------------- C27
\* Two passes run side by side, each the first operation of its caller, for
\* two different repositories.
TwoRepositories ==
  /\ started = 2
  /\ \A p \in Procs : proc[p].pc # "idle" /\ proc[p].kind \in IndexKinds
  /\ proc["p1"].repo # proc["p2"].repo

\* C27: while two passes for different repositories run side by side, what a
\* pass reads is a file of its own repository at the commit it records, and
\* what it stores under its repository is what it read there.
C27_PassesDoNotInterfere ==
  [][TwoRepositories =>
       \A p \in Procs :
         /\ (proc[p].rd = Absent /\ proc'[p].rd # Absent)
              => /\ proc'[p].rd = Content(proc[p].repo, proc[p].hash)
                 /\ Head(proc[p].todo) \in Range(Tree(proc[p].repo, proc[p].hash))
         /\ (proc[p].pc = "aWrite" /\ aChunks' # aChunks)
              => aChunks'[ChunkId(Head(proc[p].todo))]
                   = <<proc[p].repo, Content(proc[p].repo, proc[p].hash)>>
         /\ (proc[p].pc = "fWrite" /\ fFiles' # fFiles)
              => fFiles'[proc[p].repo][Head(proc[p].todo)]
                   = Content(proc[p].repo, proc[p].hash)]_vars


\* --------------------------------------------------------------- initialize()
\* The fields of one service instance (this.db, this.embedder) and its
\* callers.  db is 0 for null, else the number of the open() that produced the
\* handle; embedder is "unset" until it is assigned; loaded tells that a
\* pipeline(...) call has settled.
Services == {"codebaseIndex", "advancedCodebaseIndex"}

InitInitialize ==
  /\ Quiet
  /\ calc \in [fn : {"initialize"}, service : Services, db : {0}, opens : {0},
               tables : {FALSE}, embedder : {"unset"}, loaded : {FALSE}, calls : {0},
               at : {[p \in Procs |-> "idle"]}]

InitStep(p, pc, c) ==
  /\ calc' = [c EXCEPT !.at[p] = pc]
  /\ UNCHANGED <<roles, targets, provider, pushes, fileDb, fTemp, chunkDb, aTemp,
                 proc, started, faults>>

\* initialize() up to its first await: if (this.db) return; mkdir; open(...) is
\* called.
InitCall(p) ==
  /\ calc.fn = "initialize"
  /\ calc.at[p] = "idle"
  /\ calc.calls < MaxOps
  /\ InitStep(p, IF calc.db # 0 THEN "returned" ELSE "opening",
              [calc EXCEPT !.calls = @ + 1])

\* this.db = await open(...): the handle is assigned when the caller resumes;
\* then createTables() / db.exec(CREATE TABLE IF NOT EXISTS ...) is called.
InitOpen(p) ==
  /\ calc.fn = "initialize"
  /\ calc.at[p] = "opening"
  /\ InitStep(p, "creating", [calc EXCEPT !.opens = @ + 1, !.db = calc.opens + 1])

\* The CREATE statements settle; pipeline(...) is called.
InitTables(p) ==
  /\ calc.fn = "initialize"
  /\ calc.at[p] = "creating"
  /\ InitStep(p, "loading", [calc EXCEPT !.tables = TRUE])

\* The load settles, with the model or with a throw that is caught; the
\* method returns.
InitLoad(p) ==
  /\ calc.fn = "initialize"
  /\ calc.at[p] = "loading"
  /\ \/ InitStep(p, "returned", [calc EXCEPT !.embedder = "model", !.loaded = TRUE])
     \/ InitStep(p, "returned",
                 [calc EXCEPT !.loaded = TRUE,
                              !.embedder = IF calc.service = "codebaseIndex"
                                             THEN "null" ELSE @])

\* The operation that awaited initialize() goes on and ends.
InitDone(p) ==
  /\ calc.fn = "initialize"
  /\ calc.at[p] = "returned"
  /\ InitStep(p, "idle", calc)

NextInitialize ==
  \E p \in Procs : InitCall(p) \/ InitOpen(p) \/ InitTables(p) \/ InitLoad(p) \/ InitDone(p)

SpecInitialize == InitInitialize /\ [][NextInitialize]_vars

\* ---------------------------------------------------------------- C28
\* C28: the database is opened at most once, and a call of initialize() has
\* returned only when the tables exist and a load of the embedder has settled.
C28_InitializeOnce ==
  calc.fn = "initialize"
    => /\ calc.opens <= 1
       /\ \A p \in Procs :
            calc.at[p] = "returned" => calc.tables /\ calc.db # 0 /\ calc.loaded


\* ---------------------------------------------------------------- C29
\* C29: when needsUpdate has answered false for a repository, the chunk index
\* holds the complete chunk snapshot of that repository at the commit stored
\* on the file index's repository row, and records that commit itself.
C29_IndexesInStep ==
  \A p \in Procs :
    (proc[p].kind = "needsUpdate" /\ proc[p].pc = "done" /\ proc[p].ans = "false")
      => /\ aRepos[proc[p].repo].lastCommitHash = fRepos[proc[p].repo].lastCommitHash
         /\ StoredChunks(proc[p].repo)
              = ChunkSnap(proc[p].repo, fRepos[proc[p].repo].lastCommitHash)


\* One caller indexes the two repositories, pass after pass.
InitTwoSeq ==
  /\ roles = [p \in Procs |-> IF p = "p1" THEN IndexKinds ELSE {}]
  /\ targets = Repos
  /\ InitDb
  /\ calc = NoCalc

SpecTwoSeq == InitTwoSeq /\ [][NextIndex]_vars

\* ---------------------------------------------------------------- C30
\* C30: a pass of the chunk index fails only when a clone, a read or a storage
\* call failed, it leaves the chunks of every other repository as they are,
\* and when it has succeeded its repository holds its complete snapshot.
C30_RepositoriesIndependent ==
  [][\A p \in Procs :
       proc[p].kind = "aIndex"
         => /\ (proc[p].pc # "failed" /\ proc'[p].pc = "failed") => faults' > faults
            /\ \A r \in Repos \ {proc[p].repo} : StoredChunks(r)' = StoredChunks(r)
            /\ (proc[p].pc # "done" /\ proc'[p].pc = "done")
                 => StoredChunks(proc[p].repo)' = ChunkSnap(proc[p].repo, proc[p].hash)]_vars

====
